---- MODULE Spec2Model ----
(***************************************************************************)
(* LikeLocker (src/main.go): the fetch-cache-download engine.               *)
(*                                                                         *)
(* One process at a time runs main(): NewMediaFetcher (load the cache       *)
(* listing, reconcile it with the download directory), then the backfill    *)
(* FetchAndDownload unless watch-only, then WatchLikes forever.  The feed   *)
(* API, the media hosts, ffmpeg, ntfy.sh and the file system are the        *)
(* environment: every answer they can give is a nondeterministic choice.    *)
(* The download directory and the cache listing survive the process; the    *)
(* in-memory map and all locals do not.                                     *)
(***************************************************************************)
EXTENDS Integers, Sequences, FiniteSets, TLC

(* ------------------------------ bounds -------------------------------- *)

\* Largest DOWNLOAD_LIMIT the environment sets (main.go reads any integer).
MaxLimit == 2

\* Most items on one feed page (the code asks the feed for 50 per page).
MaxPage == 2

(* --------------------------- the media universe ------------------------ *)

\* Image URLs (EmbedImages_ViewImage.Fullsize) and a playlist URL
\* (EmbedVideo_View.Playlist).  U1 has no extension after its last slash.
U1 == "https://cdn/img/aaa@jpeg"

U2 == "https://cdn/img/bbb.jpg"

V1 == "https://video/ccc/playlist.m3u8"

ImageUrls == {U1, U2}

Urls == ImageUrls \cup {V1}

\* filepath.Ext(url): the suffix from the last dot of the last path element.
PathExt(url) ==
    CASE url = U1 -> ""
      [] url = U2 -> ".jpg"
      [] url = V1 -> ".m3u8"
      [] OTHER -> ""

\* strings.Contains(url, "m3u8")
ContainsM3u8(url) == url = V1

\* hex.EncodeToString(sha256.Sum256([]byte(url))): one digest per URL,
\* distinct URLs have distinct digests.
Sha256Hex(url) ==
    CASE url = U1 -> "5e1a"
      [] url = U2 -> "9c03"
      [] url = V1 -> "d47f"
      [] OTHER -> "0000"

\* downloadFile, lines 413-426: the file name a URL resolves to.
FileNameOf(url, mediaType) ==
    LET ext == IF PathExt(url) # "" THEN PathExt(url)
               ELSE IF ContainsM3u8(url) THEN ".m3u8"
               ELSE IF mediaType = "image" THEN ".png"
               ELSE ".mp4"
    IN  Sha256Hex(url) \o ext

\* downloadVideo, lines 379-381.
VideoFileName(playlist) == Sha256Hex(playlist) \o ".mp4"

\* Every file name a retrieval of this universe can resolve to.
FileNames ==
    {FileNameOf(u, "image") : u \in ImageUrls} \cup {VideoFileName(V1)}

\* A subdirectory of the download directory (an external drive's).
SubDir == "lost+found"

\* A file put into the download directory by hand, whose name begins with
\* a blank, and that name as strings.TrimSpace leaves it.
Stray == " cover.jpg"

StrayTrimmed == "cover.jpg"

EntryNames == FileNames \cup {SubDir, Stray, StrayTrimmed}

(* ------------------------------ embeds --------------------------------- *)

\* bsky.FeedDefs_PostView_Embed: which of the pointer fields are set.
\* hasX = FALSE is a nil pointer.
MkEmbed(hasImages, images, hasVideo, playlist, hasMedia, mHasImages, mImages, mHasVideo, mPlaylist) ==
    [nil |-> FALSE,
     hasImages |-> hasImages, images |-> images,
     hasVideo |-> hasVideo, playlist |-> playlist,
     hasRwm |-> hasMedia, hasMedia |-> hasMedia,
     mHasImages |-> mHasImages, mImages |-> mImages,
     mHasVideo |-> mHasVideo, mPlaylist |-> mPlaylist]

NilEmbed == [MkEmbed(FALSE, <<>>, FALSE, "", FALSE, FALSE, <<>>, FALSE, "")
             EXCEPT !.nil = TRUE]

\* The liked posts the feed can return, by Post.Uri.
Posts == {"a", "b", "c", "d"}

\* Post.Embed of each post.
EmbedOf(p) ==
    CASE p = "a" -> MkEmbed(TRUE, <<U1, U2>>, FALSE, "", FALSE, FALSE, <<>>, FALSE, "")
      [] p = "b" -> MkEmbed(FALSE, <<>>, TRUE, V1, FALSE, FALSE, <<>>, FALSE, "")
      [] p = "c" -> MkEmbed(FALSE, <<>>, FALSE, "", TRUE, TRUE, <<U2>>, TRUE, "")
      [] OTHER -> NilEmbed

(* ------------------------------- state --------------------------------- *)

VARIABLES
    setting,          \* what the environment is held to; fixed by Init
    pc,               \* where the process is; "off" when no process runs
    exitWhy,          \* why the last process ended
    downloadLimit,    \* DOWNLOAD_LIMIT of the running process
    watchOnly,        \* --watch or WATCH_ONLY=true
    ntfyTopic,        \* NTFY_TOPIC, "" when not configured
    downloadedFiles,  \* MediaFetcher.downloadedFiles: the in-memory cache
    cacheFile,        \* the persisted listing at MediaFetcher.cacheFile
    dir,              \* the entries of MediaFetcher.downloadDir
    fetched,          \* per URL, the retrievals from its host that returned 1
    cursor,           \* FetchAndDownload: cursor
    downloadCount,    \* FetchAndDownload: downloadCount
    feed,             \* resp.Feed of the page being walked
    respCursor,       \* resp.Cursor of that page
    idx,              \* position of the range loop in feed
    stage,            \* which embed field the pending retrieval belongs to
    imgIdx,           \* downloadImages: position of its range loop
    imgCount,         \* downloadImages: downloadCount
    imgLimit,         \* downloadImages: limit
    seen,             \* WatchLikes: seen
    downloaded,       \* downloadPostMedia: downloaded
    ret,              \* (downloaded, err) of the last retrieval call
    io,               \* the external call the last step made
    newRetrievals,    \* retrievals that returned 1 in this backfill
    attempted,        \* URLs a retrieval was invoked on for the current item
    itemNew,          \* retrievals that returned 1 for the current watch item
    earlier,          \* ids of the watch pages fetched before the current one
    newInPoll,        \* ids the current poll treated as newly seen
    evt               \* what WatchLikes did with the last finished item

config == <<downloadLimit, watchOnly, ntfyTopic>>

\* What outlives a process.
store == <<cacheFile, dir, fetched>>

pageVars == <<feed, respCursor, idx>>

imgVars == <<imgIdx, imgCount, imgLimit>>

watchGhost == <<itemNew, earlier, newInPoll, evt>>

vars == <<setting, pc, exitWhy, downloadLimit, watchOnly, ntfyTopic,
          downloadedFiles, cacheFile, dir, fetched, cursor, downloadCount, feed, respCursor, idx, stage,
          imgIdx, imgCount, imgLimit, seen, downloaded, ret, io,
          newRetrievals, attempted, itemNew, earlier, newInPoll, evt>>

\* DOWNLOAD_LIMIT: any integer strconv.Atoi accepts, up to MaxLimit here.
Limits == (-1) .. MaxLimit

NoRet == [n |-> 0, err |-> FALSE]

NoEvt == [item |-> "", new |-> 0, err |-> FALSE, sent |-> FALSE, count |-> 0,
          delivered |-> FALSE]

NoFile == [exists |-> FALSE, lines |-> {}]

\* Entries of the download directory that are files (entry.IsDir() false).
FilesIn(d) == {f \in EntryNames : d[f] \in {"partial", "complete"}}

Running == pc # "off"

(* --------------------------- Content Cache ----------------------------- *)

\* strings.TrimSpace of a line of the listing: leading and trailing white
\* space is cut off.  Of the names of this universe only Stray has any.
TrimSpace(line) == IF line = Stray THEN StrayTrimmed ELSE line

\* saveCache: os.Create truncates the listing, then every name goes through
\* one buffered writer that is flushed at the end.  A failed Create leaves
\* the listing as it was; a failed Flush leaves the truncated, empty listing
\* (the names of a listing are far fewer than the writer's buffer holds, so
\* nothing reaches the file before the Flush).
SaveCacheOutcomes(files, cf) ==
    {[err |-> FALSE, cf |-> [exists |-> TRUE, lines |-> files]],
     [err |-> TRUE, cf |-> cf],
     [err |-> TRUE, cf |-> [exists |-> TRUE, lines |-> {}]]}

\* loadCache treating a missing listing as an error.
LoadCacheOutcomes_MissingIsError(cf) ==
    IF ~cf.exists THEN {[err |-> TRUE, files |-> {}]}
    ELSE {[err |-> FALSE, files |-> {TrimSpace(l) : l \in cf.lines} \ {""}],
          [err |-> TRUE, files |-> {}]}

\* loadCache: a missing listing is an empty cache; a read error is an error;
\* else every non-empty trimmed line is a cached name.
LoadCacheOutcomes(cf) ==
    IF ~cf.exists THEN {[err |-> FALSE, files |-> {}]}
    ELSE {[err |-> FALSE, files |-> {TrimSpace(l) : l \in cf.lines} \ {""}],
          [err |-> TRUE, files |-> {}]}

\* syncCacheFromDirectory: every file entry (not directory) joins the cache;
\* the cache is saved when any was added.
SyncOutcomes(files, cf, d) ==
    LET names == {f \in EntryNames : d[f] # "absent" /\ d[f] # "dir"}
        added == names \ files
        all == files \cup names
    IN  {[err |-> TRUE, files |-> files, cf |-> cf]}
        \cup (IF added = {} THEN {[err |-> FALSE, files |-> all, cf |-> cf]}
              ELSE {[err |-> s.err, files |-> all, cf |-> s.cf] :
                        s \in SaveCacheOutcomes(all, cf)})

\* markDownloaded overwriting the map instead of adding to it.
MarkDownloadedOutcomes_Replace(filename, files, cf) ==
    {[err |-> s.err, files |-> {filename}, cf |-> s.cf] :
         s \in SaveCacheOutcomes({filename}, cf)}

\* markDownloaded writing the listing and leaving the map as it was.
MarkDownloadedOutcomes_ListingOnly(filename, files, cf) ==
    {[err |-> s.err, files |-> files, cf |-> s.cf] :
         s \in SaveCacheOutcomes(files \cup {filename}, cf)}

\* markDownloaded: add the name, save the cache.
MarkDownloadedOutcomes(filename, files, cf) ==
    {[err |-> s.err, files |-> files \cup {filename}, cf |-> s.cf] :
         s \in SaveCacheOutcomes(files \cup {filename}, cf)}

\* isDownloaded with the lookup lost: nothing is ever found in the cache.
IsDownloaded_Never(filename, files) == FALSE

\* isDownloaded
IsDownloaded(filename, files) == filename \in files

(* --------------------------- Media Retriever --------------------------- *)

\* downloadFile returning the error of markDownloaded instead of printing it.
DownloadFileOutcomes_RecordErrorReturned(url, mediaType, files, cf, d) ==
    LET filename == FileNameOf(url, mediaType)
    IN  IF IsDownloaded(filename, files)
        THEN {[n |-> 0, err |-> FALSE, io |-> "none", files |-> files,
               cf |-> cf, dir |-> d]}
        ELSE {[n |-> IF m.err THEN 0 ELSE 1, err |-> m.err, io |-> "http",
               files |-> m.files, cf |-> m.cf,
               dir |-> [d EXCEPT ![filename] = "complete"]] :
                  m \in MarkDownloadedOutcomes(filename, files, cf)}

\* downloadFile: a cache hit returns (0, nil) at once.  Else http.Get; a
\* failed request, a bad status or a failed os.Create return (0, err) with
\* nothing written; a failed io.Copy returns (0, err) and leaves the
\* created file incomplete; a full copy is followed by markDownloaded,
\* whose error is only a warning, and returns (1, nil).
DownloadFileOutcomes(url, mediaType, files, cf, d) ==
    LET filename == FileNameOf(url, mediaType)
    IN  IF IsDownloaded(filename, files)
        THEN {[n |-> 0, err |-> FALSE, io |-> "none", files |-> files,
               cf |-> cf, dir |-> d]}
        ELSE {[n |-> 0, err |-> TRUE, io |-> "http", files |-> files,
               cf |-> cf, dir |-> d],
              [n |-> 0, err |-> TRUE, io |-> "http", files |-> files,
               cf |-> cf, dir |-> [d EXCEPT ![filename] = "partial"]]}
             \cup {[n |-> 1, err |-> FALSE, io |-> "http", files |-> m.files,
                    cf |-> m.cf, dir |-> [d EXCEPT ![filename] = "complete"]] :
                       m \in MarkDownloadedOutcomes(filename, files, cf)}

\* downloadVideo returning an error for an empty playlist URL.
DownloadVideoOutcomes_EmptyIsError(playlist, files, cf, d) ==
    LET filename == VideoFileName(playlist)
    IN  IF playlist = ""
        THEN {[n |-> 0, err |-> TRUE, io |-> "none", files |-> files,
               cf |-> cf, dir |-> d]}
        ELSE IF IsDownloaded(filename, files)
        THEN {[n |-> 0, err |-> FALSE, io |-> "none", files |-> files,
               cf |-> cf, dir |-> d]}
        ELSE {[n |-> 0, err |-> TRUE, io |-> "ffmpeg", files |-> files,
               cf |-> cf, dir |-> d]}
             \cup {[n |-> 1, err |-> FALSE, io |-> "ffmpeg", files |-> m.files,
                    cf |-> m.cf, dir |-> [d EXCEPT ![filename] = "complete"]] :
                       m \in MarkDownloadedOutcomes(filename, files, cf)}

\* downloadVideo: an empty playlist returns (0, nil); a cache hit returns
\* (0, nil); else ffmpeg writes the file (-y overwrites).  A failed ffmpeg
\* returns (0, err), with or without an incomplete output file left.
DownloadVideoOutcomes(playlist, files, cf, d) ==
    LET filename == VideoFileName(playlist)
    IN  IF playlist = ""
        THEN {[n |-> 0, err |-> FALSE, io |-> "none", files |-> files,
               cf |-> cf, dir |-> d]}
        ELSE IF IsDownloaded(filename, files)
        THEN {[n |-> 0, err |-> FALSE, io |-> "none", files |-> files,
               cf |-> cf, dir |-> d]}
        ELSE {[n |-> 0, err |-> TRUE, io |-> "ffmpeg", files |-> files,
               cf |-> cf, dir |-> d],
              [n |-> 0, err |-> TRUE, io |-> "ffmpeg", files |-> files,
               cf |-> cf, dir |-> [d EXCEPT ![filename] = "partial"]]}
             \cup {[n |-> 1, err |-> FALSE, io |-> "ffmpeg", files |-> m.files,
                    cf |-> m.cf, dir |-> [d EXCEPT ![filename] = "complete"]] :
                       m \in MarkDownloadedOutcomes(filename, files, cf)}

(* --------------------------- feed collaborator ------------------------- *)

\* resp.Feed: a page of at most MaxPage distinct liked posts.
Pages ==
    {s \in UNION {[1..k -> Posts] : k \in 0..MaxPage} :
        \A a, b \in 1..Len(s) : a # b => s[a] # s[b]}

NilCursor == "<nil>"

\* bsky.FeedGetActorLikes: an error, or a page of likes with its cursor
\* (absent, empty, or a continuation token).
FeedResponses ==
    {[err |-> TRUE, feed |-> <<>>, cursor |-> NilCursor]}
    \cup {[err |-> FALSE, feed |-> f, cursor |-> c] :
              f \in Pages, c \in {NilCursor, "", "next"}}

\* The cursor that asks for page k of a feed: "" for the first page.
Token(k) == IF k = 1 THEN "" ELSE "page" \o ToString(k)

\* bsky.FeedGetActorLikes on the fixed feed `likes`, a sequence of pages: the
\* page the cursor asks for, with the cursor of the next page, absent or
\* empty on the last; an empty page past the end.
PageOfLikes(likes, cur) ==
    LET k == CHOOSE i \in 1 .. Len(likes) + 1 :
                 Token(i) = cur \/ i = Len(likes) + 1
    IN  IF k > Len(likes)
        THEN {[err |-> FALSE, feed |-> <<>>, cursor |-> NilCursor]}
        ELSE IF k < Len(likes)
        THEN {[err |-> FALSE, feed |-> likes[k], cursor |-> Token(k + 1)]}
        ELSE {[err |-> FALSE, feed |-> likes[k], cursor |-> c] :
                  c \in {NilCursor, ""}}

\* A failed feed request.
FeedError == [err |-> TRUE, feed |-> <<>>, cursor |-> NilCursor]

\* The answers of the feed to a request with cursor `cur`: those of a fixed
\* feed that always answers, those of a fixed (finite) feed whose requests
\* may fail, or anything.
FeedAnswers(cur) ==
    IF setting.ideal THEN PageOfLikes(setting.likes, cur)
    ELSE IF setting.kind = "finite"
    THEN PageOfLikes(setting.likes, cur) \cup {FeedError}
    ELSE FeedResponses

\* The answers of the feed to the seed request of WatchLikes: the first page
\* of the likes there are when the feed is known at that moment.
SeedAnswers ==
    IF setting.kind = "seeded"
    THEN PageOfLikes(setting.likes, "") \cup {FeedError}
    ELSE FeedAnswers("")

\* The outcomes a retrieval can have: all of them, or, when the hosts and
\* ffmpeg are held to answer, those without error.
Retrievals(outcomes) ==
    IF setting.ideal THEN {o \in outcomes : ~o.err} ELSE outcomes

(* ------------------------------ process -------------------------------- *)

\* The state before the first run, in a given setting.
InitIn(st) ==
    /\ setting = st
    /\ pc = "off"
    /\ exitWhy = "none"
    /\ downloadLimit = 0
    /\ watchOnly = FALSE
    /\ ntfyTopic = ""
    /\ downloadedFiles = {}
    /\ cacheFile = NoFile
    /\ dir = [f \in EntryNames |->
                 IF f = SubDir THEN "dir"
                 ELSE IF f = Stray /\ st.kind = "stray" THEN "complete"
                 ELSE "absent"]
    /\ fetched = [u \in Urls |-> 0]
    /\ cursor = ""
    /\ downloadCount = 0
    /\ feed = <<>>
    /\ respCursor = NilCursor
    /\ idx = 0
    /\ stage = 0
    /\ imgIdx = 0
    /\ imgCount = 0
    /\ imgLimit = 0
    /\ seen = {}
    /\ downloaded = 0
    /\ ret = NoRet
    /\ io = "none"
    /\ newRetrievals = 0
    /\ attempted = <<>>
    /\ itemNew = 0
    /\ earlier = {}
    /\ newInPoll = {}
    /\ evt = NoEvt

\* The world at large: the feed, the hosts and the disk answer anything.
World == [ideal |-> FALSE, likes |-> <<>>, track |-> FALSE, kind |-> ""]

Init == InitIn(World)

\* The locals of a process that has just started or has ended.
ResetLocals ==
    /\ cursor' = ""
    /\ downloadCount' = 0
    /\ feed' = <<>>
    /\ respCursor' = NilCursor
    /\ idx' = 0
    /\ stage' = 0
    /\ imgIdx' = 0
    /\ imgCount' = 0
    /\ imgLimit' = 0
    /\ seen' = {}
    /\ downloaded' = 0
    /\ ret' = NoRet
    /\ io' = "none"
    /\ newRetrievals' = 0
    /\ attempted' = <<>>
    /\ itemNew' = 0
    /\ earlier' = {}
    /\ newInPoll' = {}
    /\ evt' = NoEvt

\* The process ends (os.Exit, log.Fatal, or killed): its memory is gone.
Exit(why) ==
    /\ setting' = setting
    /\ pc' = "off"
    /\ exitWhy' = why
    /\ downloadLimit' = 0
    /\ watchOnly' = FALSE
    /\ ntfyTopic' = ""
    /\ downloadedFiles' = {}
    /\ ResetLocals

\* NewMediaFetcher without the directory reconciliation: loadCache only.
NewMediaFetcherOutcomes_NoSync(cf, d) ==
    {[err |-> TRUE, why |-> "session", files |-> {}, cf |-> cf]}
    \cup {[err |-> l.err, why |-> "load", files |-> l.files, cf |-> cf] :
              l \in LoadCacheOutcomes(cf)}

\* NewMediaFetcher: MkdirAll and the session (either may fail), then
\* loadCache, then syncCacheFromDirectory; any error is returned, and `why`
\* names the call that failed.
NewMediaFetcherOutcomes(cf, d) ==
    {[err |-> TRUE, why |-> "session", files |-> {}, cf |-> cf]}
    \cup UNION {IF l.err
                THEN {[err |-> TRUE, why |-> "load", files |-> {}, cf |-> cf]}
                ELSE {[err |-> s.err, why |-> "sync", files |-> s.files,
                       cf |-> s.cf] : s \in SyncOutcomes(l.files, cf, d)} :
                    l \in LoadCacheOutcomes(cf)}

\* NTFY_TOPIC: not set, or a topic.
Topics == {"", "likes"}

\* The backfill run whatever the watch-only setting.
RunsBackfill_Always(wo) == TRUE

\* main, line 546: the backfill is skipped in watch-only mode.
RunsBackfill(wo) == ~wo

\* main calls WatchLikes(handle, interval, ntfyTopic), line 555.
WatchLikesCalled == pc' = "w_seed"

\* Once WatchLikes runs, main's downloadLimit and watchOnly are never read
\* again: the model forgets watchOnly at WatchLikes' first step, and, unless
\* the behaviour tracks the run, downloadLimit and the count of the run's
\* new files with it.
MainLocalsWhileWatching ==
    /\ watchOnly' = FALSE
    /\ IF setting.track
       THEN UNCHANGED <<downloadLimit, newRetrievals>>
       ELSE downloadLimit' = 0 /\ newRetrievals' = 0

\* The run's count of new files after n more, while WatchLikes runs: kept
\* only when the behaviour tracks the run, and then up to MaxLimit + 1.
RunCountWhileWatching(count, n) ==
    IF setting.track /\ count + n <= MaxLimit + 1 THEN count + n ELSE count

\* main up to its first feed request: the configuration is read, the fetcher
\* is created (an error exits with status 1), and the backfill starts unless
\* watch-only.
Main ==
    /\ pc = "off"
    /\ \E lim \in Limits, wo \in BOOLEAN, topic \in Topics :
       \E f \in NewMediaFetcherOutcomes(cacheFile, dir) :
          /\ cacheFile' = f.cf
          /\ dir' = dir
          /\ fetched' = fetched
          /\ IF f.err
             THEN Exit(f.why)
             ELSE /\ setting' = setting
                  /\ exitWhy' = "none"
                  /\ downloadedFiles' = f.files
                  /\ ResetLocals
                  /\ downloadLimit' = lim
                  /\ watchOnly' = wo
                  /\ ntfyTopic' = topic
                  /\ IF RunsBackfill(wo)
                     THEN pc' = "bf_loop"
                     ELSE WatchLikesCalled

\* The process is killed (shutdown, power loss) between two steps.
Crash ==
    /\ pc # "off"
    /\ Exit("killed")
    /\ UNCHANGED store

(* --------------------------- embed inspection -------------------------- *)

\* The embed fields in the order both walkers inspect them.
StImages == 1

StVideo == 2

StMediaImages == 3

StMediaVideo == 4

StEnd == 5

ImagesOf(e, st) == IF st = StImages THEN e.images ELSE e.mImages

PlaylistOf(e, st) == IF st = StVideo THEN e.playlist ELSE e.mPlaylist

\* The URL the pending retrieval is invoked on.
PendingUrl ==
    LET e == EmbedOf(feed[idx])
    IN  IF stage \in {StImages, StMediaImages} THEN ImagesOf(e, stage)[imgIdx]
        ELSE PlaylistOf(e, stage)

\* The fields of an embed retrieved whatever was downloaded so far.
BfGuard_NoBudget(e, st, count, limit) ==
    CASE st = StImages -> e.hasImages /\ Len(e.images) > 0
      [] st = StVideo -> e.hasVideo
      [] st = StMediaImages ->
             e.hasRwm /\ e.hasMedia /\ e.mHasImages /\ Len(e.mImages) > 0
      [] st = StMediaVideo -> e.hasRwm /\ e.hasMedia /\ e.mHasVideo
      [] OTHER -> FALSE

\* FetchAndDownload, lines 132-167: whether the field of stage st is
\* retrieved, with `count` downloaded so far.  An image set without images
\* is a downloadImages call that returns (0, nil) at once.
BfGuard(e, st, count, limit) ==
    CASE st = StImages -> e.hasImages /\ Len(e.images) > 0
      [] st = StVideo -> e.hasVideo /\ count < limit
      [] st = StMediaImages ->
             /\ e.hasRwm /\ count < limit /\ e.hasMedia
             /\ e.mHasImages /\ Len(e.mImages) > 0
      [] st = StMediaVideo ->
             e.hasRwm /\ count < limit /\ e.hasMedia /\ e.mHasVideo
      [] OTHER -> FALSE

\* downloadPostMedia, lines 318-350: no budget.
WatchGuard(e, st) ==
    CASE st = StImages -> e.hasImages /\ Len(e.images) > 0
      [] st = StVideo -> e.hasVideo
      [] st = StMediaImages ->
             e.hasRwm /\ e.hasMedia /\ e.mHasImages /\ Len(e.mImages) > 0
      [] st = StMediaVideo -> e.hasRwm /\ e.hasMedia /\ e.mHasVideo
      [] OTHER -> FALSE

\* The first stage from `from` on whose field is retrieved.
FirstStage(ok) ==
    IF ok = {} THEN StEnd ELSE CHOOSE st \in ok : \A other \in ok : st <= other

BfNextStage(e, from, count, limit) ==
    FirstStage({st \in from .. StMediaVideo : BfGuard(e, st, count, limit)})

WatchNextStage(e, from) ==
    FirstStage({st \in from .. StMediaVideo : WatchGuard(e, st)})

\* The whole budget passed to downloadImages, whatever was downloaded.
BfImageLimit_NoSubtract(limit, count) == limit

\* The limit FetchAndDownload passes to downloadImages (lines 133, 153).
BfImageLimit(limit, count) == limit - count

\* The limit downloadPostMedia passes to downloadImages (lines 319, 337).
WatchImageLimit(images) == Len(images)

\* downloadImages without the test of its limit.
ImagesLoopEnds_NoLimit(images, i, count, limit, err) ==
    err \/ i + 1 > Len(images)

\* downloadImages, lines 358-368, after one downloadFile call returned
\* (n, err): whether the loop is left, and the count it has then.
ImagesLoopEnds(images, i, count, limit, err) ==
    err \/ i + 1 > Len(images) \/ count >= limit

\* downloadImages dropping its count when a retrieval fails.
ImagesCount_LostOnError(count, n, err) == IF err THEN 0 ELSE count + n

\* downloadImages, lines 362-366: its downloadCount after one downloadFile
\* call that returned (n, err); an error returns the count as it was.
ImagesCount(count, n, err) == IF err THEN count ELSE count + n

\* The effects of a retrieval outcome on the cache, the listing and the disk.
Apply(o, url) ==
    /\ downloadedFiles' = o.files
    /\ cacheFile' = o.cf
    /\ dir' = o.dir
    /\ ret' = [n |-> o.n, err |-> o.err]
    /\ io' = o.io
    /\ fetched' = IF o.n = 1 /\ fetched[url] < 2
                  THEN [fetched EXCEPT ![url] = @ + 1]
                  ELSE fetched

NoImagesLoop == imgIdx' = 0 /\ imgCount' = 0 /\ imgLimit' = 0

(* ------------------------------ backfill ------------------------------- *)

\* FetchAndDownload returns nil: main goes on to WatchLikes.
BackfillReturns ==
    /\ WatchLikesCalled
    /\ UNCHANGED <<config, newRetrievals>>
    /\ cursor' = ""
    /\ downloadCount' = 0
    /\ feed' = <<>>
    /\ respCursor' = NilCursor
    /\ idx' = 0
    /\ stage' = 0
    /\ NoImagesLoop
    /\ attempted' = <<>>

\* The budget never counted as used up.
LimitReached_Never(count, limit) == FALSE

\* Lines 101 and 114: the budget is used up.
LimitReached(count, limit) == count >= limit

\* The test of line 171 without its second half: an empty cursor is taken
\* for a continuation.
NoMorePages_NilOnly(c) == c = NilCursor

\* Line 171: resp.Cursor == nil || *resp.Cursor == "".
NoMorePages(c) == c \in {NilCursor, ""}

\* A failed feed request printed and the loop continued, as in WatchLikes.
BackfillFetchError_Continues ==
    /\ io' = "feed_err"
    /\ UNCHANGED <<setting, pc, exitWhy, config, downloadedFiles, store,
                   cursor, downloadCount, pageVars, stage, imgVars, seen,
                   downloaded, ret, newRetrievals, attempted, watchGhost>>

\* FetchAndDownload, lines 103-105: a failed feed request is returned to
\* main as an error; the fetcher is left as it is.
BackfillFetchError ==
    /\ pc' = "bf_err"
    /\ io' = "feed_err"
    /\ UNCHANGED <<setting, exitWhy, config, downloadedFiles, store, cursor,
                   downloadCount, pageVars, stage, imgVars, seen, downloaded,
                   ret, newRetrievals, attempted, watchGhost>>

\* main, lines 549-551: log.Fatalf on the error FetchAndDownload returned.
BackfillFailed ==
    /\ pc = "bf_err"
    /\ Exit("backfill")
    /\ UNCHANGED store

\* Lines 101-110: the loop test, one feed request, the empty-page break.
FetchAndDownloadPage ==
    /\ pc = "bf_loop"
    /\ IF LimitReached(downloadCount, downloadLimit)
       THEN /\ BackfillReturns
            /\ io' = "none"
            /\ UNCHANGED <<setting, exitWhy, downloadedFiles, store, seen,
                           downloaded, ret, watchGhost>>
       ELSE \E r \in FeedAnswers(cursor) :
               IF r.err
               THEN BackfillFetchError
               ELSE /\ io' = "feed"
                    /\ IF Len(r.feed) = 0
                       THEN BackfillReturns
                       ELSE /\ pc' = "bf_post"
                            /\ feed' = r.feed
                            /\ respCursor' = r.cursor
                            /\ idx' = 1
                            /\ stage' = 0
                            /\ NoImagesLoop
                            /\ UNCHANGED <<config, cursor, downloadCount,
                                           newRetrievals, attempted>>
                    /\ UNCHANGED <<setting, exitWhy, downloadedFiles, store, seen,
                                   downloaded, ret, watchGhost>>

\* After a retrieval of the current post: the next field to retrieve, or the
\* next post.
BfAdvance(e, from, count) ==
    LET st == BfNextStage(e, from, count, downloadLimit)
    IN  IF st = StEnd
        THEN pc' = "bf_post" /\ idx' = idx + 1 /\ stage' = 0 /\ NoImagesLoop
        ELSE /\ pc' = "bf_call"
             /\ idx' = idx
             /\ stage' = st
             /\ IF st \in {StImages, StMediaImages}
                THEN /\ imgIdx' = 1
                     /\ imgCount' = 0
                     /\ imgLimit' = BfImageLimit(downloadLimit, count)
                ELSE NoImagesLoop

\* Lines 113-130 and 170-174: the head of the range loop over the page.
BfNextPost ==
    /\ pc = "bf_post"
    /\ io' = "none"
    /\ ret' = NoRet
    /\ IF idx > Len(feed)
       THEN IF NoMorePages(respCursor)
            THEN BackfillReturns
            ELSE /\ pc' = "bf_loop"
                 /\ cursor' = respCursor
                 /\ feed' = <<>>
                 /\ respCursor' = NilCursor
                 /\ idx' = 0
                 /\ attempted' = <<>>
                 /\ UNCHANGED <<config, stage, imgVars, downloadCount,
                                newRetrievals>>
       ELSE IF LimitReached(downloadCount, downloadLimit)
       THEN BackfillReturns
       ELSE /\ attempted' = <<>>
            /\ UNCHANGED <<config, cursor, downloadCount, newRetrievals, feed,
                           respCursor>>
            /\ IF EmbedOf(feed[idx]).nil
               THEN pc' = "bf_post" /\ idx' = idx + 1 /\ stage' = 0 /\ NoImagesLoop
               ELSE BfAdvance(EmbedOf(feed[idx]), StImages, downloadCount)
    /\ UNCHANGED <<setting, exitWhy, downloadedFiles, store, seen, downloaded,
                   watchGhost>>

\* Lines 133-137 and 153-157 with downloadImages: one downloadFile call of
\* the image loop; when the loop is left its count is added to downloadCount
\* and an error is only printed.
BfDownloadImage ==
    /\ pc = "bf_call"
    /\ stage \in {StImages, StMediaImages}
    /\ LET e == EmbedOf(feed[idx])
           images == ImagesOf(e, stage)
       IN  \E o \in Retrievals(DownloadFileOutcomes(images[imgIdx], "image",
                                 downloadedFiles, cacheFile, dir)) :
              LET count == ImagesCount(imgCount, o.n, o.err)
              IN  /\ Apply(o, images[imgIdx])
                  /\ newRetrievals' = newRetrievals + o.n
                  /\ attempted' = Append(attempted, images[imgIdx])
                  /\ IF ImagesLoopEnds(images, imgIdx, count, imgLimit, o.err)
                     THEN /\ downloadCount' = downloadCount + count
                          /\ BfAdvance(e, stage + 1, downloadCount + count)
                     ELSE /\ downloadCount' = downloadCount
                          /\ imgIdx' = imgIdx + 1
                          /\ imgCount' = count
                          /\ UNCHANGED <<pc, idx, stage, imgLimit>>
    /\ UNCHANGED <<setting, exitWhy, config, cursor, feed, respCursor, seen,
                   downloaded, watchGhost>>

\* Lines 140-146 and 159-165: downloadVideo; an error is only printed.
BfDownloadVideo ==
    /\ pc = "bf_call"
    /\ stage \in {StVideo, StMediaVideo}
    /\ LET e == EmbedOf(feed[idx])
           playlist == PlaylistOf(e, stage)
       IN  \E o \in Retrievals(DownloadVideoOutcomes(playlist,
                                 downloadedFiles, cacheFile, dir)) :
              /\ Apply(o, playlist)
              /\ newRetrievals' = newRetrievals + o.n
              /\ attempted' = Append(attempted, playlist)
              /\ downloadCount' = downloadCount + o.n
              /\ BfAdvance(e, stage + 1, downloadCount + o.n)
    /\ UNCHANGED <<setting, exitWhy, config, cursor, feed, respCursor, seen,
                   downloaded, watchGhost>>

(* -------------------------------- watch -------------------------------- *)

Ids(page) == {page[k] : k \in 1..Len(page)}

\* notify without the test of the topic.
NotifyOutcomes_NoTopicCheck(topic) ==
    {[sent |-> TRUE, delivered |-> TRUE], [sent |-> TRUE, delivered |-> FALSE]}

\* notify: nothing is sent without a topic; else one http.Post, whose
\* failure is printed and not retried.
NotifyOutcomes(topic) ==
    IF topic = "" THEN {[sent |-> FALSE, delivered |-> FALSE]}
    ELSE {[sent |-> TRUE, delivered |-> TRUE],
          [sent |-> TRUE, delivered |-> FALSE]}

\* The seed page fetched and none of its posts marked.
SeedSeen_None(page) == {}

\* Lines 191-193: every post of the seed page is marked seen.
SeedSeen(page) == Ids(page)

\* The test of line 206 never true: every post of a page is taken as new.
AlreadySeen_Never(post, s) == FALSE

\* Line 206: seen[post.Post.Uri].
AlreadySeen(post, s) == post \in s

\* Line 209 left out: the post is not marked.
MarkSeen_Skipped(s, post) == s

\* Line 209: seen[post.Post.Uri] = true.
MarkSeen(s, post) == s \cup {post}

\* A failed poll request returned like a failed seed request.
WatchPollError_Fatal == Exit("poll") /\ UNCHANGED store

\* Lines 200-203: a failed poll request is printed and the loop continues.
WatchPollError ==
    /\ io' = "feed_err"
    /\ UNCHANGED <<setting, pc, exitWhy, config, downloadedFiles, store, feed, idx,
                   cursor, downloadCount, respCursor, stage, imgVars, seen,
                   downloaded, ret, newRetrievals, attempted, watchGhost>>

\* WatchLikes, lines 183-194: the seed request; its error is returned and
\* main ends the process with log.Fatal.
WatchSeed ==
    /\ pc = "w_seed"
    /\ \E r \in SeedAnswers :
          IF r.err
          THEN Exit("seed") /\ UNCHANGED store
          ELSE /\ pc' = "w_loop"
               /\ seen' = SeedSeen(r.feed)
               /\ io' = "feed"
               /\ earlier' = Ids(r.feed)
               /\ MainLocalsWhileWatching
               /\ UNCHANGED <<setting, exitWhy, ntfyTopic, downloadedFiles,
                              store, cursor, downloadCount, pageVars, stage,
                              imgVars, downloaded, ret, attempted, itemNew,
                              newInPoll, evt>>

\* Lines 196-203: sleep, one feed request; its error is printed and the loop
\* continues.
WatchPoll ==
    /\ pc = "w_loop"
    /\ \E r \in FeedAnswers("") :
          IF r.err
          THEN WatchPollError
          ELSE /\ pc' = "w_post"
               /\ feed' = r.feed
               /\ idx' = 1
               /\ io' = "feed"
               /\ UNCHANGED <<setting, exitWhy, config, downloadedFiles, store,
                              cursor, downloadCount, respCursor, stage,
                              imgVars, seen, downloaded, ret, newRetrievals,
                              attempted, watchGhost>>

\* downloadPostMedia returned (n, err) to WatchLikes, lines 212-218: an error
\* is printed; else a positive count is printed and notified.
WatchHandle(post, n, err) ==
    /\ pc' = "w_post"
    /\ idx' = idx + 1
    /\ stage' = 0
    /\ NoImagesLoop
    /\ IF err
       THEN evt' = [item |-> post, new |-> itemNew', err |-> TRUE,
                    sent |-> FALSE, count |-> 0, delivered |-> FALSE]
       ELSE IF n > 0
       THEN \E m \in NotifyOutcomes(ntfyTopic) :
               evt' = [item |-> post, new |-> itemNew', err |-> FALSE,
                       sent |-> m.sent, count |-> IF m.sent THEN n ELSE 0,
                       delivered |-> m.delivered]
       ELSE evt' = [item |-> post, new |-> itemNew', err |-> FALSE,
                    sent |-> FALSE, count |-> 0, delivered |-> FALSE]

\* After a retrieval of the current post returned without error: the next
\* field to retrieve, or the return of downloadPostMedia.
WatchAdvance(e, from, count) ==
    LET st == WatchNextStage(e, from)
    IN  IF st = StEnd
        THEN WatchHandle(feed[idx], count, FALSE)
        ELSE /\ pc' = "w_call"
             /\ idx' = idx
             /\ stage' = st
             /\ evt' = NoEvt
             /\ IF st \in {StImages, StMediaImages}
                THEN /\ imgIdx' = 1
                     /\ imgCount' = 0
                     /\ imgLimit' = WatchImageLimit(ImagesOf(e, st))
                ELSE NoImagesLoop

\* Lines 205-212: the head of the range loop over the polled page; a post
\* not yet seen is marked seen and handed to downloadPostMedia.
WatchNextPost ==
    /\ pc = "w_post"
    /\ io' = "none"
    /\ ret' = NoRet
    /\ attempted' = <<>>
    /\ IF idx > Len(feed)
       THEN /\ pc' = "w_loop"
            /\ feed' = <<>>
            /\ idx' = 0
            /\ earlier' = earlier \cup Ids(feed)
            /\ newInPoll' = {}
            /\ downloaded' = 0
            /\ itemNew' = 0
            /\ evt' = NoEvt
            /\ UNCHANGED <<stage, imgVars, seen>>
       ELSE IF AlreadySeen(feed[idx], seen)
       THEN /\ idx' = idx + 1
            /\ downloaded' = 0
            /\ itemNew' = 0
            /\ evt' = NoEvt
            /\ UNCHANGED <<pc, feed, stage, imgVars, seen, earlier, newInPoll>>
       ELSE /\ seen' = MarkSeen(seen, feed[idx])
            /\ newInPoll' = newInPoll \cup {feed[idx]}
            /\ downloaded' = 0
            /\ itemNew' = 0
            /\ UNCHANGED <<feed, earlier>>
            /\ IF EmbedOf(feed[idx]).nil
               THEN WatchHandle(feed[idx], 0, FALSE)
               ELSE WatchAdvance(EmbedOf(feed[idx]), StImages, 0)
    /\ UNCHANGED <<setting, exitWhy, config, downloadedFiles, store, cursor,
                   downloadCount, respCursor, newRetrievals>>

\* Lines 319-323 and 337-341 with downloadImages: one downloadFile call of
\* the image loop; when the loop is left its count is added to downloaded,
\* and an error makes downloadPostMedia return at once.
WatchDownloadImage ==
    /\ pc = "w_call"
    /\ stage \in {StImages, StMediaImages}
    /\ LET e == EmbedOf(feed[idx])
           images == ImagesOf(e, stage)
       IN  \E o \in Retrievals(DownloadFileOutcomes(images[imgIdx], "image",
                                 downloadedFiles, cacheFile, dir)) :
              LET count == ImagesCount(imgCount, o.n, o.err)
              IN  /\ Apply(o, images[imgIdx])
                  /\ itemNew' = itemNew + o.n
                  /\ newRetrievals' = RunCountWhileWatching(newRetrievals, o.n)
                  /\ attempted' = Append(attempted, images[imgIdx])
                  /\ IF ImagesLoopEnds(images, imgIdx, count, imgLimit, o.err)
                     THEN /\ downloaded' = downloaded + count
                          /\ IF o.err
                             THEN WatchHandle(feed[idx], downloaded + count, TRUE)
                             ELSE WatchAdvance(e, stage + 1, downloaded + count)
                     ELSE /\ downloaded' = downloaded
                          /\ imgIdx' = imgIdx + 1
                          /\ imgCount' = count
                          /\ evt' = NoEvt
                          /\ UNCHANGED <<pc, idx, stage, imgLimit>>
    /\ UNCHANGED <<setting, exitWhy, config, cursor, downloadCount, feed,
                   respCursor, seen, earlier, newInPoll>>

\* Lines 327-331 and 344-348: downloadVideo; an error makes
\* downloadPostMedia return at once.
WatchDownloadVideo ==
    /\ pc = "w_call"
    /\ stage \in {StVideo, StMediaVideo}
    /\ LET e == EmbedOf(feed[idx])
       IN  \E o \in Retrievals(DownloadVideoOutcomes(PlaylistOf(e, stage),
                                 downloadedFiles, cacheFile, dir)) :
              /\ Apply(o, PlaylistOf(e, stage))
              /\ itemNew' = itemNew + o.n
              /\ newRetrievals' = RunCountWhileWatching(newRetrievals, o.n)
              /\ attempted' = Append(attempted, PlaylistOf(e, stage))
              /\ downloaded' = downloaded + o.n
              /\ IF o.err
                 THEN WatchHandle(feed[idx], downloaded + o.n, TRUE)
                 ELSE WatchAdvance(e, stage + 1, downloaded + o.n)
    /\ UNCHANGED <<setting, exitWhy, config, cursor, downloadCount, feed,
                   respCursor, seen, earlier, newInPoll>>

(* --------------------------- specification ----------------------------- *)

Next ==
    \/ Main
    \/ Crash
    \/ FetchAndDownloadPage
    \/ BackfillFailed
    \/ BfNextPost
    \/ BfDownloadImage
    \/ BfDownloadVideo
    \/ WatchSeed
    \/ WatchPoll
    \/ WatchNextPost
    \/ WatchDownloadImage
    \/ WatchDownloadVideo

Spec == Init /\ [][Next]_vars

(* ------------------------- the run, tracked ---------------------------- *)

\* The same program in the same world, with main's downloadLimit and the
\* count of the run's new files kept while WatchLikes runs.
InitRun == InitIn([ideal |-> FALSE, likes |-> <<>>, track |-> TRUE, kind |-> ""])

\* Every step of the program; a process ends only by its own exits.
NextRun ==
    \/ Main
    \/ FetchAndDownloadPage
    \/ BackfillFailed
    \/ BfNextPost
    \/ BfDownloadImage
    \/ BfDownloadVideo
    \/ WatchSeed
    \/ WatchPoll
    \/ WatchNextPost
    \/ WatchDownloadImage
    \/ WatchDownloadVideo

SpecRun == InitRun /\ [][NextRun]_vars

(* ----------------- the backfill on a fixed, healthy feed ---------------- *)

IsUrl(u) == u # ""

\* The media references of an embed in the order FetchAndDownload walks
\* them: images, video, the composite's images, the composite's video.  A
\* video without a playlist URL refers to nothing.
MediaRefs(e) ==
    IF e.nil THEN <<>>
    ELSE SelectSeq((IF e.hasImages THEN e.images ELSE <<>>)
                   \o (IF e.hasVideo THEN <<e.playlist>> ELSE <<>>)
                   \o (IF e.hasRwm /\ e.hasMedia /\ e.mHasImages
                       THEN e.mImages ELSE <<>>)
                   \o (IF e.hasRwm /\ e.hasMedia /\ e.mHasVideo
                       THEN <<e.mPlaylist>> ELSE <<>>), IsUrl)

RECURSIVE RefsOfPage(_)
RefsOfPage(page) ==
    IF page = <<>> THEN <<>>
    ELSE MediaRefs(EmbedOf(Head(page))) \o RefsOfPage(Tail(page))

\* The references of a whole feed in enumeration order.
RECURSIVE RefsOfLikes(_)
RefsOfLikes(likes) ==
    IF likes = <<>> THEN <<>>
    ELSE RefsOfPage(Head(likes)) \o RefsOfLikes(Tail(likes))

\* The file a reference is stored in (downloadFile for images, downloadVideo
\* for playlists).
FileFor(u) ==
    IF u \in ImageUrls THEN FileNameOf(u, "image") ELSE VideoFileName(u)

\* Feeds of at most MaxPage non-empty pages whose references have pairwise
\* distinct URLs.
LikesFeeds ==
    {l \in UNION {[1 .. k -> Pages \ {<<>>}] : k \in 0 .. MaxPage} :
        LET r == RefsOfLikes(l)
        IN  \A i, j \in 1 .. Len(r) : i # j => r[i] # r[j]}

\* An empty download directory, no listing, a fixed feed, and hosts that
\* answer every request; the run is followed up to the call of WatchLikes.
InitE2E ==
    \E l \in LikesFeeds :
        InitIn([ideal |-> TRUE, likes |-> l, track |-> TRUE, kind |-> ""])

NextE2E ==
    \/ Main
    \/ FetchAndDownloadPage
    \/ BfNextPost
    \/ BfDownloadImage
    \/ BfDownloadVideo

SpecE2E == InitE2E /\ [][NextE2E]_vars

(* ------------------ a hand-placed file in the directory ---------------- *)

\* The world at large, with the file Stray in the download directory from
\* the start.
InitStray ==
    InitIn([ideal |-> FALSE, likes |-> <<>>, track |-> FALSE, kind |-> "stray"])

\* Between two runs the file is taken out of the directory again.
StrayRemoved ==
    /\ pc = "off"
    /\ dir[Stray] = "complete"
    /\ dir' = [dir EXCEPT ![Stray] = "absent"]
    /\ UNCHANGED <<setting, pc, exitWhy, config, downloadedFiles, cacheFile,
                   fetched, cursor, downloadCount, pageVars, stage, imgVars,
                   seen, downloaded, ret, io, newRetrievals, attempted,
                   watchGhost>>

NextStray ==
    \/ Main
    \/ Crash
    \/ StrayRemoved
    \/ FetchAndDownloadPage
    \/ BackfillFailed
    \/ BfNextPost
    \/ BfDownloadImage
    \/ BfDownloadVideo
    \/ WatchSeed
    \/ WatchPoll
    \/ WatchNextPost
    \/ WatchDownloadImage
    \/ WatchDownloadVideo

SpecStray == InitStray /\ [][NextStray]_vars

(* ------------------ watching from a known feed ------------------------- *)

\* The likes there are when WatchLikes starts: a first page, which the seed
\* request returns, and a page of older likes behind it.
OldLikes ==
    {l \in [1 .. 2 -> {<<p>> : p \in Posts}] : l[1] # l[2]}

\* The world at large, except that the likes at the seed request are known;
\* what later polls return is open (posts are liked and unliked meanwhile).
InitSeeded ==
    \E l \in OldLikes :
        InitIn([ideal |-> FALSE, likes |-> l, track |-> FALSE, kind |-> "seeded"])

\* The runs are followed through WatchLikes.
NextSeeded ==
    \/ Main
    \/ Crash
    \/ WatchSeed
    \/ WatchPoll
    \/ WatchNextPost
    \/ WatchDownloadImage
    \/ WatchDownloadVideo

SpecSeeded == InitSeeded /\ [][NextSeeded]_vars

(* ------------------- the backfill on a finite feed ---------------------- *)

\* An empty download directory, no listing, and a fixed feed of finitely
\* many pages; feed requests and retrievals may fail.
InitFinite ==
    \E l \in LikesFeeds :
        InitIn([ideal |-> FALSE, likes |-> l, track |-> TRUE, kind |-> "finite"])

\* The run up to the call of WatchLikes or the exit on a backfill error.
NextFinite ==
    \/ Main
    \/ FetchAndDownloadPage
    \/ BackfillFailed
    \/ BfNextPost
    \/ BfDownloadImage
    \/ BfDownloadVideo

\* One worker runs the backfill and every call it makes returns: a process
\* that can take a step takes it.
SpecFinite ==
    /\ InitFinite
    /\ [][NextFinite]_vars
    /\ WF_vars(FetchAndDownloadPage)
    /\ WF_vars(BfNextPost)
    /\ WF_vars(BfDownloadImage)
    /\ WF_vars(BfDownloadVideo)
    /\ WF_vars(BackfillFailed)

TypeOK ==
    /\ pc \in {"off", "bf_loop", "bf_post", "bf_call", "bf_err", "w_seed",
               "w_loop", "w_post", "w_call"}
    /\ downloadedFiles \subseteq EntryNames \ {SubDir}
    /\ cacheFile.lines \subseteq EntryNames \ {SubDir}
    /\ \A f \in EntryNames : dir[f] \in {"absent", "partial", "complete", "dir"}
    /\ stage \in 0 .. StMediaVideo
    /\ fetched \in [Urls -> 0 .. 2]

(* ------------------------------- claims -------------------------------- *)

InBackfill == pc \in {"bf_loop", "bf_post", "bf_call"}

InWatchLoop == pc \in {"w_loop", "w_post", "w_call"}

\* A retrieval is the next step of the process.
CallPending == pc \in {"bf_call", "w_call"}

\* The file name the pending retrieval resolves.
PendingFile ==
    IF stage \in {StImages, StMediaImages}
    THEN FileNameOf(PendingUrl, "image")
    ELSE VideoFileName(PendingUrl)

\* Every media reference of an embed, in enumeration order.
AllRefs(e) ==
    IF e.nil THEN <<>>
    ELSE (IF e.hasImages THEN e.images ELSE <<>>)
         \o (IF e.hasVideo THEN <<e.playlist>> ELSE <<>>)
         \o (IF e.hasRwm /\ e.hasMedia /\ e.mHasImages THEN e.mImages ELSE <<>>)
         \o (IF e.hasRwm /\ e.hasMedia /\ e.mHasVideo THEN <<e.mPlaylist>> ELSE <<>>)

\* C1: in every state of a backfill with budget N, the retrievals that
\* returned 1 so far are at most N (none at all when N is negative),
\* whatever the pages, the embeds and the failures were.
ThmC1_BudgetRespected ==
    InBackfill => (newRetrievals <= downloadLimit \/ newRetrievals = 0)

\* The budget binds: it is used up while posts of the page remain.
WitC1_BudgetUsedUp ==
    /\ pc = "bf_post"
    /\ downloadLimit >= 1
    /\ newRetrievals = downloadLimit
    /\ idx <= Len(feed)

\* C2: a retrieval invoked on a reference whose file name is in the cache
\* makes no network or ffmpeg call, returns (0, nil) and leaves the cache,
\* the listing and the directory as they were.
ThmC2_CacheHitShortCircuit ==
    [][(CallPending /\ PendingFile \in downloadedFiles /\ pc' # "off")
         => /\ io' = "none"
            /\ ret' = [n |-> 0, err |-> FALSE]
            /\ downloadedFiles' = downloadedFiles
            /\ cacheFile' = cacheFile
            /\ dir' = dir]_vars

\* A retrieval has just returned from a cache hit on an image.
WitC2_HitHappened ==
    /\ InBackfill
    /\ attempted # <<>>
    /\ attempted[Len(attempted)] \in ImageUrls
    /\ FileNameOf(attempted[Len(attempted)], "image") \in downloadedFiles
    /\ io = "none"
    /\ ret = [n |-> 0, err |-> FALSE]

\* C3: every name in the cache has a complete file in the download
\* directory or no file there; an incomplete file is never cached.
OrigC3_CachedFilesComplete ==
    \A f \in downloadedFiles : dir[f] # "partial"

\* C4: a failed retrieval does not stop the walk of the item: when the
\* backfill leaves an item with budget left, a retrieval was invoked on every
\* reference of that item, in order.
OrigC4_WalkContinuesAfterFailure ==
    (pc = "bf_post" /\ idx > 1 /\ downloadCount < downloadLimit)
        => attempted = AllRefs(EmbedOf(feed[idx - 1]))

\* C5: with a topic configured, every newly-seen item with at least one
\* retrieval that returned 1 gets a notification carrying that number.
OrigC5_NotifiedWhenAnySucceeded ==
    (ntfyTopic # "" /\ evt.new >= 1) => (evt.sent /\ evt.count = evt.new)

\* C6 as claimed: with a topic configured, every newly-seen item that
\* produced a new file has had its notification delivered once WatchLikes
\* is done with it (the item is seen from then on and never handled again).
OrigC6_DeliveredAtLeastOnce ==
    (ntfyTopic # "" /\ evt.new >= 1) => evt.delivered

\* C6 as amended: delivery is best effort.  An item whose downloadPostMedia
\* returned a positive count and no error gets, with a topic configured,
\* exactly one send carrying that count; nothing else is sent; only items
\* newly seen in the current poll are sent for; a send that failed is not
\* delivered and is not repeated.
ThmC6_BestEffortDelivery ==
    /\ (evt.item # "" /\ ntfyTopic # "" /\ ~evt.err /\ evt.new >= 1)
           => (evt.sent /\ evt.count = evt.new)
    /\ evt.sent => (ntfyTopic # "" /\ ~evt.err /\ evt.count >= 1
                    /\ evt.item \in newInPoll)
    /\ evt.delivered => evt.sent

\* A send was attempted for a new file and failed.
WitC6_SendFailed ==
    evt.sent /\ ~evt.delivered /\ evt.new >= 1

\* C7: a successful startup leaves in the cache every name of the listing
\* it found and every file entry of the directory, and no directory entry,
\* and makes no retrieval request.
ThmC7_StartupCache ==
    [][(pc = "off" /\ pc' # "off")
         => /\ ({TrimSpace(l) : l \in cacheFile.lines} \ {""})
                   \subseteq downloadedFiles'
            /\ FilesIn(dir) \subseteq downloadedFiles'
            /\ SubDir \notin downloadedFiles'
            /\ io' = "none"]_vars

\* A process has just started and its cache holds the name of a directory
\* file that no retrieval ever recorded (its write was cut short, and
\* markDownloaded comes only after a full write): the listing never had the
\* name before the reconciliation added it and saved the listing.
WitC7_Reconciled ==
    /\ pc = "bf_loop"
    /\ cursor = ""
    /\ attempted = <<>>
    /\ newRetrievals = 0
    /\ cacheFile.lines = downloadedFiles
    /\ \E f \in FileNames : dir[f] = "partial" /\ f \in downloadedFiles

\* C8: while a process runs, no step removes a name from the in-memory
\* cache.
ThmC8_CacheMonotone ==
    [][(pc # "off" /\ pc' # "off") => downloadedFiles \subseteq downloadedFiles']_vars

\* A retrieval failed in a process whose cache holds two names.
WitC8_FailureWithCache ==
    pc # "off" /\ ret.err /\ Cardinality(downloadedFiles) >= 2

\* C9: the posts a poll treats as newly seen are exactly the posts of its
\* page that were in no page WatchLikes fetched earlier.
ThmC9_Novelty ==
    /\ pc = "w_post" => newInPoll = Ids(SubSeq(feed, 1, idx - 1)) \ earlier
    /\ pc = "w_call" => newInPoll = Ids(SubSeq(feed, 1, idx)) \ earlier
    /\ pc = "w_loop" => (seen = earlier /\ newInPoll = {})

\* Seeded with {a, b}, the poll of the page b, c has ended with exactly c
\* newly seen.
WitC9_OneNew ==
    /\ pc = "w_post"
    /\ feed = <<"b", "c">>
    /\ idx = 3
    /\ earlier = {"a", "b"}
    /\ newInPoll = {"c"}

\* C10 as claimed: WatchLikes never ends on a failed feed request.
OrigC10_WatchNeverEndsOnFeedError ==
    exitWhy # "seed"

\* C10 as amended: once the seed request has succeeded, the watch loop is
\* left only by the process being shut down; a failed poll request leaves
\* it in the loop.  (A failed seed request ends WatchLikes and the process.)
ThmC10_PollLoopNeverEnds ==
    [][InWatchLoop => (InWatchLoop' \/ (pc' = "off" /\ exitWhy' = "killed"))]_vars

\* A poll request has failed and the loop is about to poll again.
WitC10_PollFailed ==
    pc = "w_loop" /\ io = "feed_err"

\* C11: on a fixed feed with pairwise distinct URLs, from an empty directory
\* and cache and with every retrieval succeeding, the backfill with budget N
\* has at every moment retrieved exactly the first newRetrievals references
\* of the enumeration, never more than min(N, total) (0 for a negative N);
\* the cache holds exactly their file names; no retrieval is invoked on a
\* reference past the first min(N, total); and when FetchAndDownload has
\* returned, exactly min(N, total) have been retrieved.
ThmC11_EndToEnd ==
    LET refs == RefsOfLikes(setting.likes)
        budget == IF downloadLimit < 0 THEN 0 ELSE downloadLimit
        want == IF budget < Len(refs) THEN budget ELSE Len(refs)
    IN  (InBackfill \/ (pc = "w_seed" /\ ~watchOnly))
            => /\ newRetrievals <= want
               /\ downloadedFiles = {FileFor(refs[i]) : i \in 1 .. newRetrievals}
               /\ \A i \in 1 .. Len(attempted) :
                      \/ attempted[i] = ""
                      \/ \E j \in 1 .. want : refs[j] = attempted[i]
               /\ pc = "w_seed" => newRetrievals = want

\* Budget 2 on the feed a, b with three references: FetchAndDownload has
\* returned with the two images of a in the cache and the video of b not
\* fetched.
WitC11_BudgetCutsFeed ==
    /\ pc = "w_seed"
    /\ ~watchOnly
    /\ setting.likes = << <<"a", "b">> >>
    /\ downloadLimit = 2
    /\ newRetrievals = 2
    /\ downloadedFiles = {FileNameOf(U1, "image"), FileNameOf(U2, "image")}
    /\ dir[VideoFileName(V1)] = "absent"

\* C12: a retrieval that wrote its file in full but whose listing write
\* failed still returns (1, nil) and has the name in the in-memory cache;
\* every startup puts the name of every complete file of the directory into
\* the cache, whatever the listing holds; and a retrieval whose file is
\* complete on disk is a cache hit: no request, (0, nil), nothing written.
ThmC12_UnrecordedFileReabsorbed ==
    [][/\ (/\ CallPending /\ pc' # "off"
           /\ io' \in {"http", "ffmpeg"}
           /\ dir'[PendingFile] = "complete"
           /\ PendingFile \notin cacheFile'.lines)
              => (ret' = [n |-> 1, err |-> FALSE]
                  /\ PendingFile \in downloadedFiles')
       /\ (pc = "off" /\ pc' # "off")
              => \A f \in FileNames :
                     dir[f] = "complete" => f \in downloadedFiles'
       /\ (/\ CallPending /\ pc' # "off"
           /\ PendingUrl # ""
           /\ dir[PendingFile] = "complete")
              => (io' = "none" /\ ret' = [n |-> 0, err |-> FALSE]
                  /\ dir' = dir)]_vars

\* A process has ended and left a complete file whose name the listing does
\* not hold: its record was not written.
WitC12_CompleteButUnlisted ==
    /\ pc = "off"
    /\ exitWhy = "killed"
    /\ \E f \in FileNames : dir[f] = "complete" /\ f \notin cacheFile.lines

\* C13: a failed feed request of the backfill makes FetchAndDownload return
\* the error with the in-memory cache, the listing and the directory as
\* they were; main then ends the process, and the listing and the directory
\* stay as they were.
ThmC13_FeedFailureKeepsCache ==
    [][/\ (pc = "bf_loop" /\ io' = "feed_err")
              => /\ pc' = "bf_err"
                 /\ downloadedFiles' = downloadedFiles
                 /\ cacheFile' = cacheFile
                 /\ dir' = dir
       /\ pc = "bf_err"
              => /\ pc' = "off"
                 /\ exitWhy' \in {"backfill", "killed"}
                 /\ cacheFile' = cacheFile
                 /\ dir' = dir]_vars

\* The request for a later page has failed after the backfill recorded a
\* new file.
WitC13_FailedAfterRecording ==
    /\ pc = "bf_err"
    /\ newRetrievals >= 1
    /\ downloadedFiles # {}
    /\ cacheFile.lines = downloadedFiles

\* C14: whatever the backfills, polls and restarts, no URL is retrieved from
\* its host with success more than once.
ThmC14_DownloadedAtMostOnce ==
    \A u \in Urls : fetched[u] <= 1

\* The image U2 of post a is attached to post c as well: it was downloaded
\* once, and the retrieval invoked for c in this backfill was a cache hit.
WitC14_SharedImageHit ==
    /\ pc = "bf_call"
    /\ feed[idx] = "c"
    /\ stage = StMediaVideo
    /\ attempted = <<U2>>
    /\ io = "none"
    /\ fetched[U2] = 1

BackfillAtReturn ==
    \/ /\ pc = "bf_loop"
       /\ downloadCount >= downloadLimit \/ io' = "feed"
    \/ /\ pc = "bf_post"
       /\ \/ idx > Len(feed) /\ respCursor \in {NilCursor, ""}
          \/ idx <= Len(feed) /\ downloadCount >= downloadLimit

\* C16: startup makes no feed request and goes to the watch seed when
\* watch-only is on and to the backfill when it is off; the backfill runs
\* only with watch-only off; WatchLikes is otherwise entered only from a
\* backfill at one of its returns, never from a retrieval in progress; and
\* the first step of WatchLikes is its seed request.
ThmC16_PhasesInSequence ==
    [][/\ (pc = "off" /\ pc' # "off")
              => /\ io' = "none"
                 /\ pc' = IF watchOnly' THEN "w_seed" ELSE "bf_loop"
       /\ (InBackfill' \/ pc' = "bf_err") => ~watchOnly'
       /\ (pc \notin {"off", "w_seed"} /\ pc' = "w_seed")
              => (~watchOnly /\ BackfillAtReturn /\ io' # "http"
                  /\ io' # "ffmpeg")
       /\ (pc = "w_seed" /\ pc' \notin {"off", "w_seed"})
              => (pc' = "w_loop" /\ io' = "feed")]_vars

\* Both phases run: the backfill has returned after downloading, and the
\* seed request of WatchLikes is the next step.
WitC16_SeedAfterBackfill ==
    /\ pc = "w_seed"
    /\ ~watchOnly
    /\ newRetrievals >= 1
    /\ newRetrievals = downloadLimit

\* C17: a startup that finds no listing does not fail in loadCache and, when
\* it succeeds, has in its cache nothing but the files of the directory
\* (nothing when the directory is empty); a startup that fails in loadCache
\* found a listing, ends the process, and makes no request and writes
\* nothing.
ThmC17_LoadAtStartup ==
    [][pc = "off"
         => /\ ~cacheFile.exists
                  => /\ ~(pc' = "off" /\ exitWhy' = "load")
                     /\ pc' # "off" => downloadedFiles' = FilesIn(dir)
            /\ (pc' = "off" /\ exitWhy' = "load")
                  => /\ cacheFile.exists
                     /\ io' = "none"
                     /\ UNCHANGED store]_vars

\* A startup has failed reading a listing that holds names.
WitC17_ReadFailed ==
    /\ pc = "off"
    /\ exitWhy = "load"
    /\ cacheFile.exists
    /\ cacheFile.lines # {}


\* C18: when WatchLikes is done with a newly-seen item, a retrieval was
\* invoked on every media reference of the item, in order, whatever the
\* other retrievals of the item returned.
OrigC18_EveryReferencePassed ==
    (pc = "w_post" /\ evt.item # "")
        => attempted = AllRefs(EmbedOf(evt.item))

\* downloadImages, lines 358-367: the images its loop calls downloadFile on
\* when the retrievals of `failed` return an error and the limit does not
\* bind.
RECURSIVE ImagesTried(_, _)
ImagesTried(images, failed) ==
    IF images = <<>> THEN <<>>
    ELSE IF Head(images) \in failed THEN <<Head(images)>>
    ELSE <<Head(images)>> \o ImagesTried(Tail(images), failed)

\* FetchAndDownload, lines 124-167: the references the backfill invokes a
\* retrieval on for embed e when the retrievals of `failed` return an error
\* and the budget does not bind: an error is printed and the next field of
\* the embed is taken up.
BackfillRefs(e, failed) ==
    IF e.nil THEN <<>>
    ELSE (IF e.hasImages THEN ImagesTried(e.images, failed) ELSE <<>>)
         \o (IF e.hasVideo THEN <<e.playlist>> ELSE <<>>)
         \o (IF e.hasRwm /\ e.hasMedia /\ e.mHasImages
             THEN ImagesTried(e.mImages, failed) ELSE <<>>)
         \o (IF e.hasRwm /\ e.hasMedia /\ e.mHasVideo
             THEN <<e.mPlaylist>> ELSE <<>>)

\* The references whose retrieval failed for the item WatchLikes is done
\* with: downloadPostMedia returns at its first error, so the last one at
\* most.
FailedInWatch ==
    IF evt.err /\ attempted # <<>> THEN {attempted[Len(attempted)]} ELSE {}

\* C19: when WatchLikes is done with a newly-seen item, the references it
\* invoked a retrieval on are those the backfill invokes a retrieval on for
\* the same embed with the same retrievals failing and a budget that does
\* not bind.
OrigC19_SameWalkInBothModes ==
    (pc = "w_post" /\ evt.item # "")
        => attempted = BackfillRefs(EmbedOf(evt.item), FailedInWatch)

\* C20: a retrieval call returns (0, nil), (0, err) or (1, nil); it returns
\* (0, nil) exactly on a cache hit or an empty playlist URL; when it returns
\* 1 the resolved file name, not cached before, is the one name added to the
\* cache; when it returns 0 the cache is unchanged.
ThmC20_ThreeOutcomes ==
    [][(CallPending /\ pc' # "off")
         => LET hit == PendingUrl = "" \/ PendingFile \in downloadedFiles
            IN  /\ ret' \in {[n |-> 0, err |-> FALSE], [n |-> 0, err |-> TRUE],
                             [n |-> 1, err |-> FALSE]}
                /\ (ret' = [n |-> 0, err |-> FALSE]) <=> hit
                /\ ret'.n = 1
                     => /\ PendingFile \notin downloadedFiles
                        /\ downloadedFiles' = downloadedFiles \cup {PendingFile}
                /\ ret'.n = 0 => downloadedFiles' = downloadedFiles]_vars

\* downloadVideo has just returned (0, nil) for an empty playlist URL, in a
\* process that holds files in its cache.
WitC20_EmptyPlaylistReturned ==
    /\ pc \in {"bf_post", "w_post"}
    /\ attempted # <<>>
    /\ attempted[Len(attempted)] = ""
    /\ ret = [n |-> 0, err |-> FALSE]
    /\ downloadedFiles # {}

\* C21: on a finite feed every backfill ends, by returning nil to main or
\* by returning a feed error; it returns nil only with the budget used up,
\* after an empty page, or after the last post of a page without
\* continuation cursor; it returns an error only on a failed feed request.
ThmC21_BackfillTerminates ==
    /\ InBackfill ~> (pc \in {"w_seed", "bf_err"})
    /\ [][InBackfill
            => /\ pc' \in {"bf_loop", "bf_post", "bf_call", "w_seed", "bf_err"}
               /\ pc' = "w_seed"
                     => \/ downloadCount >= downloadLimit
                        \/ pc = "bf_loop" /\ io' = "feed"
                        \/ /\ pc = "bf_post" /\ idx > Len(feed)
                           /\ respCursor \in {NilCursor, ""}
               /\ pc' = "bf_err" => (pc = "bf_loop" /\ io' = "feed_err")]_vars

\* The backfill has returned after the last post of the second page, whose
\* cursor was empty, with budget left.
WitC21_FeedExhausted ==
    /\ pc = "w_seed"
    /\ ~watchOnly
    /\ Len(setting.likes) = 2
    /\ newRetrievals < downloadLimit
    /\ io = "none"

\* C22: a successful startup leaves a listing whose lines are the names of
\* the in-memory cache, and that cache holds every line of the listing the
\* startup found; a retrieval that returns 1 leaves a listing whose lines
\* are the names of the in-memory cache, unless its write failed, which
\* leaves the listing as it was or empty.
OrigC22_ListingMirrorsCache ==
    [][/\ (pc = "off" /\ pc' # "off")
              => /\ cacheFile'.lines = downloadedFiles'
                 /\ cacheFile.lines \subseteq downloadedFiles'
       /\ (CallPending /\ pc' # "off" /\ ret'.n = 1)
              => \/ cacheFile'.lines = downloadedFiles'
                 \/ cacheFile' = cacheFile
                 \/ cacheFile'.exists /\ cacheFile'.lines = {}]_vars

\* C23: when either mode is done with an item (the backfill with budget
\* left), a composite embed whose media holds an image set and a video has
\* had a retrieval invoked on every image of the set and on the video, and
\* an absent embed has had none invoked and no error reported.
OrigC23_ExtractionComplete ==
    LET done == IF pc = "w_post" /\ evt.item # "" THEN {evt.item}
                ELSE IF pc = "bf_post" /\ idx > 1
                        /\ downloadCount < downloadLimit
                THEN {feed[idx - 1]}
                ELSE {}
    IN  \A item \in done :
           LET e == EmbedOf(item)
           IN  /\ (~e.nil /\ e.hasRwm /\ e.hasMedia /\ e.mHasImages
                    /\ e.mHasVideo /\ ~e.hasImages /\ ~e.hasVideo)
                      => attempted = e.mImages \o <<e.mPlaylist>>
               /\ e.nil => (attempted = <<>> /\ ret = NoRet
                            /\ (pc = "w_post" => ~evt.err))

\* C24 as claimed: WatchLikes never handles as new, and never retrieves
\* media of, a post that was among the likes when it made its seed request,
\* on whichever page of the feed the post was then.
OrigC24_NothingLikedBeforeSeed ==
    InWatchLoop
        => LET before == Ids(setting.likes[1]) \cup Ids(setting.likes[2])
           IN  /\ evt.item \notin before
               /\ newInPoll \cap before = {}
               /\ pc = "w_call" => feed[idx] \notin before

\* C24 as amended: the posts of the seed page are all marked seen, and
\* WatchLikes never handles one of them as new, never retrieves media of
\* one and never sends a notification for one.
ThmC24_NothingFromSeedPage ==
    InWatchLoop
        => LET page == Ids(setting.likes[1])
           IN  /\ page \subseteq seen
               /\ evt.item \notin page
               /\ newInPoll \cap page = {}
               /\ pc = "w_call" => feed[idx] \notin page

\* A post liked before the seed request, on the page behind the seed page,
\* has come up in a poll and a file of it was retrieved as for a new like.
WitC24_OldLikeTakenAsNew ==
    /\ pc = "w_post"
    /\ evt.item \in Ids(setting.likes[2])
    /\ evt.new >= 1
    /\ ~evt.err

\* C25: during the backfill the count of downloads (downloadCount of
\* FetchAndDownload plus, while downloadImages runs, its own downloadCount)
\* grows at each retrieval by what the retrieval returned, which is the
\* number of names the retrieval added to the in-memory cache; no other step
\* of the backfill changes the count or the cache; and between two calls
\* FetchAndDownload's downloadCount is the number of retrievals that
\* returned 1 since the backfill started.
ThmC25_CounterCountsNewFiles ==
    [][(InBackfill /\ InBackfill')
         => /\ pc = "bf_call"
                  => /\ downloadCount' + imgCount'
                           = downloadCount + imgCount + ret'.n
                     /\ downloadedFiles \subseteq downloadedFiles'
                     /\ Cardinality(downloadedFiles' \ downloadedFiles) = ret'.n
            /\ pc # "bf_call"
                  => /\ downloadCount' + imgCount' = downloadCount + imgCount
                     /\ downloadedFiles' = downloadedFiles
            /\ downloadCount' + imgCount' = newRetrievals'
            /\ pc' # "bf_call" => downloadCount' = newRetrievals']_vars

\* Inside downloadImages, the first image of a set newly downloaded and the
\* second about to be retrieved: the count is held by downloadImages.
WitC25_CountedInsideImageSet ==
    /\ pc = "bf_call"
    /\ imgIdx = 2
    /\ imgCount = 1
    /\ downloadCount = 0
    /\ newRetrievals = 1
    /\ Cardinality(downloadedFiles) = 1

\* C26: a retrieval of the backfill is pending only with budget left; once
\* the count of downloads has reached the budget, the backfill makes no
\* feed request and no retrieval, not even a look into the cache, and
\* changes nothing in the cache; and at its loop test with the budget
\* reached (at once when the budget is 0 or less) FetchAndDownload returns
\* nil without a request.
ThmC26_NothingBeyondBudget ==
    [][/\ pc' = "bf_call" => downloadCount' + imgCount' < downloadLimit'
       /\ (InBackfill /\ downloadCount + imgCount >= downloadLimit
              /\ pc' # "off")
              => /\ io' = "none"
                 /\ pc' \in {"bf_loop", "bf_post", "w_seed"}
                 /\ attempted' \in {attempted, <<>>}
                 /\ ret' = NoRet
                 /\ downloadedFiles' = downloadedFiles
                 /\ UNCHANGED store
       /\ (pc = "bf_loop" /\ downloadCount >= downloadLimit /\ pc' # "off")
              => pc' = "w_seed"]_vars

\* The budget is reached with a post of the page and a further page of the
\* feed still to come.
WitC26_BudgetReachedMidPage ==
    /\ pc = "bf_post"
    /\ downloadLimit >= 1
    /\ downloadCount >= downloadLimit
    /\ idx <= Len(feed)
    /\ respCursor = "next"

\* C27: a post is marked seen at the step that takes it up, before any of
\* its media is retrieved; only posts not yet seen are taken up; the set of
\* seen posts never shrinks while WatchLikes runs; every post WatchLikes is
\* done with, failed or not, is seen; and a seen post on a polled page is
\* passed over with no retrieval, no notification and no change of the
\* cache.
ThmC27_HandledAtMostOnce ==
    [][/\ pc' = "w_call" => feed'[idx'] \in seen'
       /\ (InWatchLoop /\ InWatchLoop') => seen \subseteq seen'
       /\ (pc = "w_post" /\ (pc' = "w_call" \/ evt'.item # ""))
              => (feed[idx] \notin seen /\ feed[idx] \in seen')
       /\ evt'.item # "" => evt'.item \in seen'
       /\ (pc = "w_post" /\ idx <= Len(feed) /\ feed[idx] \in seen
              /\ pc' # "off")
              => /\ pc' = "w_post"
                 /\ idx' = idx + 1
                 /\ io' = "none"
                 /\ evt' = NoEvt
                 /\ downloadedFiles' = downloadedFiles
                 /\ UNCHANGED store]_vars

\* The retrieval of a newly liked video has failed: WatchLikes is done with
\* the post, which is marked seen, and nothing of it was stored.
WitC27_FailedAndSeen ==
    /\ pc = "w_post"
    /\ evt.item = "b"
    /\ evt.err
    /\ "b" \in seen
    /\ VideoFileName(V1) \notin downloadedFiles
    /\ idx <= Len(feed)

====
